---- MODULE Spec2Model ----
(***************************************************************************)
(* A state-machine model of lenstronomy's ImageModel                       *)
(* (lenstronomy/ImSim/image_model.py): construction, the image terms, the  *)
(* mask conversions and the astrometric displacement.                      *)
(*                                                                         *)
(* Images are 2D arrays image[i][j] (sequences of rows), flat arrays are   *)
(* sequences, Python's None is the record None, a dict is a function whose *)
(* DOMAIN is its key set, and a raised exception is the name of its class. *)
(***************************************************************************)
EXTENDS Integers, Sequences, FiniteSets, TLC

VARIABLES
    phase,            \* "new" (before __init__), "ready", "failed" (__init__ raised)
    args,             \* the arguments __init__ is called with
    self,             \* the attributes of the ImageModel instance
    psf_pixel_size,   \* the pixel size held by each PSF object (0: never set)
    point_source_obj, \* the state of the PointSource collaborator
    ctor_error,       \* the exception __init__ raised ("" when none)
    ret               \* the last call: operation, arguments, outcome

vars == <<phase, args, self, psf_pixel_size, point_source_obj, ctor_error, ret>>

-----------------------------------------------------------------------------
(* Bounds of the model *)

NX == 2             \* pixels per axis of the data grid
NY == NX
MaxProfiles == 2    \* longest source-light profile list
MaxPos == 2         \* longest position list and offset array

-----------------------------------------------------------------------------
(* Python values *)

None == [some |-> FALSE]
Some(v) == [some |-> TRUE, v |-> v]

\* the outcome of a call: a returned value or a raised exception
Ok(v) == [status |-> "ok", val |-> v]
Raise(e) == [status |-> e, val |-> <<>>]

\* the exceptions of image_model.py and of the numpy calls it makes
ErrMixedSource ==
    "ValueError: 'SLIT_STARLETS' or 'SLIT_STARLETS_GEN2' must be the only source model list for pixel-based modelling"
ErrPSFType ==
    "ValueError: Only convolution using a pixelated kernel is supported for pixel-based modelling"
ErrComputeMode ==
    "ValueError: Only regular coordinate grid is supported for pixel-based modelling"
ErrSupersampling ==
    "ValueError: Only non-supersampled convolution is supported for pixel-based modelling"
ErrDeconvolution ==
    "ValueError: Lens light pixel-based modelling does not perform deconvolution"
ErrPrimaryBeam ==
    "Warning: Antenna primary beam does not apply to point sources in ImageModel!"
ErrKeyDeltaY == "KeyError: 'delta_y_image'"
ErrBroadcast == "ValueError: could not broadcast input array"

Min(a, b) == IF a <= b THEN a ELSE b
Max(a, b) == IF a >= b THEN a ELSE b

RECURSIVE SumSeq(_)
SumSeq(s) == IF s = <<>> THEN 0 ELSE Head(s) + SumSeq(Tail(s))

\* all sequences over S of length at most n
SeqsUpTo(S, n) == UNION {[1..m -> S] : m \in 0..n}

Pixels == (1..NX) \X (1..NY)

\* np.zeros(shape)
zeros(shape) == [i \in 1..shape[1] |-> [j \in 1..shape[2] |-> 0]]
zeros1d(n) == [p \in 1..n |-> 0]

\* elementwise a + b, a * b and a * c of 2D arrays
ImgAdd(a, b) == [i \in DOMAIN a |-> [j \in DOMAIN a[i] |-> a[i][j] + b[i][j]]]
ImgScale(a, c) == [i \in DOMAIN a |-> [j \in DOMAIN a[i] |-> a[i][j] * c]]
ImgDiv(a, c) == [i \in DOMAIN a |-> [j \in DOMAIN a[i] |-> a[i][j] \div c]]
ArrMul(a, b) == [p \in DOMAIN a |-> a[p] * b[p]]
ArrScale(a, c) == [p \in DOMAIN a |-> a[p] * c]

-----------------------------------------------------------------------------
(* lenstronomy.Util.util *)

\* util.image2array: the rows of the image one after the other
image2array(image) ==
    LET nx == Len(image)
        ny == IF nx = 0 THEN 0 ELSE Len(image[1])
    IN  [p \in 1..(nx * ny) |-> image[((p - 1) \div ny) + 1][((p - 1) % ny) + 1]]

\* util.array2image(array, nx, ny): reshape to nx rows of ny entries
array2image(array, nx, ny) ==
    [i \in 1..nx |-> [j \in 1..ny |-> array[(i - 1) * ny + j]]]

\* array[mask]: the entries under a True mask entry, in order
RECURSIVE BoolIndex(_, _)
BoolIndex(array, mask) ==
    IF array = <<>> THEN <<>>
    ELSE (IF Head(mask) THEN <<Head(array)>> ELSE <<>>)
             \o BoolIndex(Tail(array), Tail(mask))

\* number of True entries among the first p entries of mask
RECURSIVE CountTrue(_, _)
CountTrue(mask, p) ==
    IF p = 0 THEN 0 ELSE CountTrue(mask, p - 1) + (IF mask[p] THEN 1 ELSE 0)

\* grid[mask] = array: the k-th True position receives array[k]
BoolAssign(grid, mask, array) ==
    [p \in DOMAIN grid |-> IF mask[p] THEN array[CountTrue(mask, p)] ELSE grid[p]]

\* np.array(mask, dtype=bool): every non-zero entry is True
AsBool(mask) == [i \in DOMAIN mask |-> [j \in DOMAIN mask[i] |-> mask[i][j] # 0]]

-----------------------------------------------------------------------------
(* Collaborators: the data grid, the PSF, the numerics adapter, the light  *)
(* models, the point-source solver and the pixel-based solver              *)

hasattr(obj, name) == name \in DOMAIN obj

\* dict.get(key, default)
get(dict, key, default) == IF key \in DOMAIN dict THEN dict[key] ELSE default

EmptyDict == <<>>

\* antenna primary beam: one weight per pixel
PrimaryBeam == [i \in 1..NX |-> [j \in 1..NY |-> i + 1]]

\* PixelGrid / ImageData objects; flux_scaling is an optional attribute
DataNoFlux == [pixel_width : {1, 2}, num_pixel_axes : {<<NX, NY>>},
               primary_beam : {None, PrimaryBeam}]
DataWithFlux == [pixel_width : {1, 2}, num_pixel_axes : {<<NX, NY>>},
                 primary_beam : {None, PrimaryBeam}, flux_scaling : {3}]
DataClasses == DataNoFlux \cup DataWithFlux

\* Data.width: extent of the field along each axis
DataWidth(data) ==
    <<data.num_pixel_axes[1] * data.pixel_width, data.num_pixel_axes[2] * data.pixel_width>>

\* PSF objects (their pixel size is mutable: psf_pixel_size)
PSFClasses == [psf_type : {"PIXEL", "GAUSSIAN", "NONE"}, psf_variance_map_bool : BOOLEAN]

\* NumericsSubFrame(pixel_grid, psf, **kwargs)
NumericsSubFrame(pixel_grid, psf, kwargs) ==
    [pixel_grid |-> pixel_grid, psf |-> psf, kwargs |-> kwargs]

\* Numerics.coordinates_evaluate: one coordinate per pixel, in flat order
coordinates_evaluate(numerics) ==
    [p \in 1..(numerics.pixel_grid.num_pixel_axes[1] * numerics.pixel_grid.num_pixel_axes[2]) |-> p]

\* flux a convolution kernel of the PSF type spreads over a pixel
KernelGain(psf) ==
    CASE psf.psf_type = "PIXEL" -> 2
      [] psf.psf_type = "GAUSSIAN" -> 3
      [] OTHER -> 1

\* Numerics.re_size_convolve: reshape to the grid, convolve unless unconvolved
\* (or the PSF is NONE), and turn surface brightness into flux per pixel
re_size_convolve(numerics, flux_array, unconvolved) ==
    LET shape == numerics.pixel_grid.num_pixel_axes
        gain == IF unconvolved \/ numerics.psf.psf_type = "NONE"
                THEN 1 ELSE KernelGain(numerics.psf)
    IN  ImgScale(array2image(flux_array, shape[1], shape[2]),
                 gain * numerics.pixel_grid.pixel_width * numerics.pixel_grid.pixel_width)

\* Numerics.point_source_rendering: the kernel painted at every position
point_source_rendering(numerics, ra_pos, dec_pos, amp) ==
    LET shape == numerics.pixel_grid.num_pixel_axes
        Hit(i, j) == {n \in DOMAIN ra_pos : ra_pos[n] = i /\ dec_pos[n] = j}
        RECURSIVE Total(_)
        Total(S) == IF S = {} THEN 0
                    ELSE LET n == CHOOSE m \in S : TRUE
                         IN  amp[n] * KernelGain(numerics.psf) + Total(S \ {n})
    IN  [i \in 1..shape[1] |-> [j \in 1..shape[2] |-> Total(Hit(i, j))]]

\* LightModel.surface_brightness: the profiles (or profile k alone) summed at
\* every coordinate; kwargs[i] is the amplitude of profile i
surface_brightness(profile_type_list, grid, kwargs, k) ==
    LET which == IF k = None THEN DOMAIN profile_type_list
                 ELSE {i \in DOMAIN profile_type_list : i = k.v + 1}
        RECURSIVE Amp(_)
        Amp(S) == IF S = {} THEN 0
                  ELSE LET i == CHOOSE m \in S : TRUE IN kwargs[i] + Amp(S \ {i})
    IN  [p \in DOMAIN grid |-> Amp(which) * grid[p]]

\* Image2SourceMapping.image_flux_joint with the lens model of the instance
\* (LensModel(lens_model_list=[]) deflects nothing)
image_flux_joint(mapping, grid, kwargs_lens, kwargs_source, kwargs_special, k) ==
    surface_brightness(mapping.source_model, grid, kwargs_source, k)

\* DifferentialExtinction(optical_depth_model=[]).extinction
extinction(kwargs_extinction, kwargs_special) == 1

\* PointSource.point_source_list: positions and amplitudes of all models (or
\* of model k), one after the other
RECURSIVE ConcatField(_, _, _)
ConcatField(kwargs_ps, field, i) ==
    IF i > Len(kwargs_ps) THEN <<>>
    ELSE kwargs_ps[i][field] \o ConcatField(kwargs_ps, field, i + 1)

point_source_list(point_source_type_list, kwargs_ps, kwargs_lens, k) ==
    LET n == Len(point_source_type_list)
        sel == IF k = None THEN SubSeq(kwargs_ps, 1, n)
               ELSE IF k.v + 1 <= n THEN <<kwargs_ps[k.v + 1]>> ELSE <<>>
    IN  <<ConcatField(sel, "ra_image", 1), ConcatField(sel, "dec_image", 1),
          ConcatField(sel, "point_amp", 1)>>

\* Data.center
DataCenter(data) == <<0, 0>>

\* LightModel(light_model_list), PointSource(point_source_type_list),
\* LensModel(lens_model_list), DifferentialExtinction(optical_depth_model)
LightModel(light_model_list) == [profile_type_list |-> light_model_list]
PointSource(point_source_type_list) == [point_source_type_list |-> point_source_type_list]
LensModel(lens_model_list) == [lens_model_list |-> lens_model_list]
DifferentialExtinction(optical_depth_model) == [optical_depth_model |-> optical_depth_model]

\* Image2SourceMapping(lens_model, source_model)
Image2SourceMapping(lens_model, source_model) ==
    [lens_model |-> lens_model.lens_model_list, source_model |-> source_model.profile_type_list]

\* slitronomy's create_solver_class followed by set_likelihood_mask
create_solver_class(data, psf, image_numerics, source_numerics, kwargs_pixelbased, mask) ==
    [data |-> data, psf |-> psf, image_numerics |-> image_numerics,
     source_numerics |-> source_numerics, kwargs_pixelbased |-> kwargs_pixelbased,
     likelihood_mask |-> mask, lensing_mapping |-> None]

-----------------------------------------------------------------------------
(* ImageModel.__init__ and its helpers *)

PixelBasedProfiles == {"SLIT_STARLETS", "SLIT_STARLETS_GEN2"}

\* the instance before __init__ has assigned anything
Blank ==
    [type |-> "", num_bands |-> 0, PSF |-> None, Data |-> None, _flux_scaling |-> 0,
     ImageNumerics |-> None, LensModel |-> None, PointSource |-> None,
     _psf_error_map |-> FALSE, likelihood_mask |-> None, _mask1d |-> None,
     SourceModel |-> None, LensLightModel |-> None, _kwargs_numerics |-> None,
     _extinction |-> None, _pixelbased_bool |-> FALSE, SourceNumerics |-> None,
     PixelSolver |-> None, source_mapping |-> None, _pb |-> None, _pb_1d |-> None,
     _psf_error_map_bool_list |-> None]

Contains(list, x) == \E i \in DOMAIN list : list[i] = x

\* _detect_pixelbased_models gone wrong: the length of the list is not checked
_detect_pixelbased_models_any_length(this) ==
    LET source_model_list == this.SourceModel.profile_type_list
    IN  Ok(Contains(source_model_list, "SLIT_STARLETS")
           \/ Contains(source_model_list, "SLIT_STARLETS_GEN2"))

\* _detect_pixelbased_models
_detect_pixelbased_models(this) ==
    LET source_model_list == this.SourceModel.profile_type_list
    IN  IF Contains(source_model_list, "SLIT_STARLETS")
           \/ Contains(source_model_list, "SLIT_STARLETS_GEN2")
        THEN IF Len(source_model_list) > 1 THEN Raise(ErrMixedSource) ELSE Ok(TRUE)
        ELSE Ok(FALSE)

\* _setup_pixelbased_source_numerics, lines 791 to 800: the numerics of the
\* source plane, with its own supersampling factor and the regular grid
SourceNumericsOf(this, kwargs_numerics, kwargs_pixelbased) ==
    LET supersampling_factor_source == get(kwargs_pixelbased, "supersampling_factor_source", 1)
        kwargs_numerics_source ==
            [key \in DOMAIN kwargs_numerics \cup {"supersampling_factor", "compute_mode"} |->
                CASE key = "supersampling_factor" -> supersampling_factor_source
                  [] key = "compute_mode" -> "regular"
                  [] OTHER -> kwargs_numerics[key]]
    IN  NumericsSubFrame(this.Data, this.PSF, kwargs_numerics_source)

\* _setup_pixelbased_source_numerics gone wrong: the PSF type is not checked
_setup_pixelbased_source_numerics_any_psf(this, kwargs_numerics, kwargs_pixelbased) ==
    IF get(kwargs_numerics, "compute_mode", "regular") # "regular"
    THEN Raise(ErrComputeMode)
    ELSE IF get(kwargs_numerics, "supersampling_convolution", FALSE) = TRUE
            /\ get(kwargs_numerics, "supersampling_factor", 1) > 1
    THEN Raise(ErrSupersampling)
    ELSE Ok(SourceNumericsOf(this, kwargs_numerics, kwargs_pixelbased))

\* _setup_pixelbased_source_numerics gone wrong: the supersampling is not checked
_setup_pixelbased_source_numerics_any_sampling(this, kwargs_numerics, kwargs_pixelbased) ==
    IF this.PSF.psf_type \notin {"PIXEL", "NONE"} THEN Raise(ErrPSFType)
    ELSE IF get(kwargs_numerics, "compute_mode", "regular") # "regular"
    THEN Raise(ErrComputeMode)
    ELSE Ok(SourceNumericsOf(this, kwargs_numerics, kwargs_pixelbased))

\* _setup_pixelbased_source_numerics
_setup_pixelbased_source_numerics(this, kwargs_numerics, kwargs_pixelbased) ==
    LET psf_type == this.PSF.psf_type
        supersampling_convolution == get(kwargs_numerics, "supersampling_convolution", FALSE)
        supersampling_factor == get(kwargs_numerics, "supersampling_factor", 1)
        compute_mode == get(kwargs_numerics, "compute_mode", "regular")
    IN  IF psf_type \notin {"PIXEL", "NONE"} THEN Raise(ErrPSFType)
        ELSE IF compute_mode # "regular" THEN Raise(ErrComputeMode)
        ELSE IF supersampling_convolution = TRUE /\ supersampling_factor > 1
             THEN Raise(ErrSupersampling)
        ELSE Ok(SourceNumericsOf(this, kwargs_numerics, kwargs_pixelbased))

\* kwargs_pixelbased once _setup_pixelbased_source_numerics has popped its key
PoppedPixelbased(kwargs_pixelbased) ==
    [key \in DOMAIN kwargs_pixelbased \ {"supersampling_factor_source"} |-> kwargs_pixelbased[key]]

\* __init__, lines 51 to 99: everything assigned before the mode detection
InitFields(a) ==
    LET kwargs_numerics == IF a.kwargs_numerics = None THEN EmptyDict ELSE a.kwargs_numerics
        lens_model_class == IF a.lens_model_class = None THEN LensModel(<<>>)
                            ELSE a.lens_model_class
        mask == IF a.likelihood_mask = None
                THEN [i \in 1..a.data_class.num_pixel_axes[1] |->
                         [j \in 1..a.data_class.num_pixel_axes[2] |-> 1]]
                ELSE a.likelihood_mask
    IN  [Blank EXCEPT
            !.type = "single-band",
            !.num_bands = 1,
            !.PSF = a.psf_class,
            !.Data = a.data_class,
            !._flux_scaling = IF hasattr(a.data_class, "flux_scaling")
                              THEN a.data_class.flux_scaling ELSE 1,
            !.ImageNumerics = NumericsSubFrame(a.data_class, a.psf_class, kwargs_numerics),
            !.LensModel = lens_model_class,
            !.PointSource = IF a.point_source_class = None THEN PointSource(<<>>)
                            ELSE a.point_source_class,
            !._psf_error_map = a.psf_class.psf_variance_map_bool,
            !.likelihood_mask = AsBool(mask),
            !._mask1d = image2array(AsBool(mask)),
            !.SourceModel = IF a.source_model_class = None THEN LightModel(<<>>)
                            ELSE a.source_model_class,
            !.LensLightModel = IF a.lens_light_model_class = None THEN LightModel(<<>>)
                               ELSE a.lens_light_model_class,
            !._kwargs_numerics = kwargs_numerics,
            !._extinction = IF a.extinction_class = None THEN DifferentialExtinction(<<>>)
                            ELSE a.extinction_class]

\* __init__, lines 133 to 143: the primary beam and the PSF error map list
FinalFields(this, a) ==
    [this EXCEPT
        !._pb = a.data_class.primary_beam,
        !._pb_1d = IF a.data_class.primary_beam # None
                   THEN image2array(a.data_class.primary_beam) ELSE None,
        !._psf_error_map_bool_list =
            IF a.psf_error_map_bool_list = None
            THEN [i \in 1..Len(this.PointSource.point_source_type_list) |-> TRUE]
            ELSE a.psf_error_map_bool_list]

\* the mode set-up with the source mapping built in both modes
ModeFieldsBothBackEnds(this, a) ==
    LET kwargs_pixelbased == IF a.kwargs_pixelbased = None THEN EmptyDict
                             ELSE a.kwargs_pixelbased
        detected == _detect_pixelbased_models(this)
        s2 == [this EXCEPT !._pixelbased_bool = detected.val]
        numerics == _setup_pixelbased_source_numerics(s2, this._kwargs_numerics, kwargs_pixelbased)
    IN  IF detected.status # "ok" THEN [status |-> detected.status, val |-> this]
        ELSE IF detected.val = TRUE
        THEN IF numerics.status # "ok" THEN [status |-> numerics.status, val |-> s2]
             ELSE Ok([s2 EXCEPT
                        !.SourceNumerics = numerics.val,
                        !.PixelSolver = create_solver_class(
                            s2.Data, s2.PSF, s2.ImageNumerics, numerics.val,
                            PoppedPixelbased(kwargs_pixelbased), s2.likelihood_mask),
                        !.source_mapping =
                            Image2SourceMapping(s2.LensModel, s2.SourceModel)])
        ELSE Ok([s2 EXCEPT !.source_mapping =
                    Image2SourceMapping(s2.LensModel, s2.SourceModel)])

\* __init__, lines 104 to 131: the instance, or the exception, of the mode set-up
ModeFields(this, a) ==
    LET kwargs_pixelbased == IF a.kwargs_pixelbased = None THEN EmptyDict
                             ELSE a.kwargs_pixelbased
        detected == _detect_pixelbased_models(this)
        s2 == [this EXCEPT !._pixelbased_bool = detected.val]
        numerics == _setup_pixelbased_source_numerics(s2, this._kwargs_numerics, kwargs_pixelbased)
    IN  IF detected.status # "ok" THEN [status |-> detected.status, val |-> this]
        ELSE IF detected.val = TRUE
        THEN IF numerics.status # "ok" THEN [status |-> numerics.status, val |-> s2]
             ELSE Ok([s2 EXCEPT
                        !.SourceNumerics = numerics.val,
                        !.PixelSolver = create_solver_class(
                            s2.Data, s2.PSF, s2.ImageNumerics, numerics.val,
                            PoppedPixelbased(kwargs_pixelbased), s2.likelihood_mask),
                        !.source_mapping = None])
        ELSE Ok([s2 EXCEPT !.source_mapping =
                    Image2SourceMapping(s2.LensModel, s2.SourceModel)])

\* PointSource.update_lens_model (when none is bound) and update_search_window
PointSourceAfterInit(ps, a) ==
    LET search_window == Max(DataWidth(a.data_class)[1], DataWidth(a.data_class)[2])
        centre == DataCenter(a.data_class)
    IN  [ps EXCEPT
            !.lens_model = IF ps.lens_model = None
                           THEN IF a.lens_model_class = None THEN LensModel(<<>>)
                                ELSE a.lens_model_class
                           ELSE ps.lens_model,
            !.search_window = [search_window |-> search_window,
                               x_center |-> centre[1], y_center |-> centre[2],
                               \* min(pixel_width, search_window / 200), times 200
                               min_distance_x200 |->
                                   Min(200 * a.data_class.pixel_width, search_window),
                               only_from_unspecified |-> TRUE]]

\* ImageModel(data_class, psf_class, ...)
Construct ==
    /\ phase = "new"
    /\ LET s1 == InitFields(args)
           mode == ModeFields(s1, args)
       IN  /\ psf_pixel_size' =
                  [psf_pixel_size EXCEPT ![args.psf_class] = args.data_class.pixel_width]
           /\ point_source_obj' = PointSourceAfterInit(point_source_obj, args)
           /\ IF mode.status = "ok"
              THEN /\ self' = FinalFields(mode.val, args)
                   /\ phase' = "ready"
                   /\ ctor_error' = ""
              ELSE /\ self' = mode.val
                   /\ phase' = "failed"
                   /\ ctor_error' = mode.status
    /\ UNCHANGED <<args, ret>>

-----------------------------------------------------------------------------
(* ImageModel: astrometric displacement and the mask conversions *)

\* SliceAssign gone wrong: the offsets are stretched over the whole target
\* instead of leaving the entries past the source at zero
SliceAssignStretched(target, source) ==
    Ok([p \in DOMAIN target |->
           IF source = <<>> THEN target[p] ELSE source[Min(p, Len(source))]])

\* target[0:len(source)] = source, as numpy assigns to a slice: the slice ends
\* with the target, a source of the slice's length is copied, a source of one
\* entry is broadcast, any other source is refused
SliceAssign(target, source) ==
    LET stop == Min(Len(source), Len(target))
    IN  IF Len(source) = stop
        THEN Ok([p \in DOMAIN target |-> IF p <= stop THEN source[p] ELSE target[p]])
        ELSE IF Len(source) = 1
        THEN Ok([p \in DOMAIN target |-> IF p <= stop THEN source[1] ELSE target[p]])
        ELSE Raise(ErrBroadcast)

\* _displace_astrometry (static)
_displace_astrometry(x_pos, y_pos, kwargs_special) ==
    IF kwargs_special # None
    THEN IF "delta_x_image" \in DOMAIN kwargs_special
         THEN IF "delta_y_image" \notin DOMAIN kwargs_special
              THEN Raise(ErrKeyDeltaY)
              ELSE LET delta_x_new == SliceAssign(zeros1d(Len(x_pos)),
                                                  kwargs_special["delta_x_image"])
                       delta_y_new == SliceAssign(zeros1d(Len(y_pos)),
                                                  kwargs_special["delta_y_image"])
                   IN  IF delta_x_new.status # "ok" THEN Raise(delta_x_new.status)
                       ELSE IF delta_y_new.status # "ok" THEN Raise(delta_y_new.status)
                       ELSE Ok(<<[p \in DOMAIN x_pos |-> x_pos[p] + delta_x_new.val[p]],
                                 [p \in DOMAIN y_pos |-> y_pos[p] + delta_y_new.val[p]]>>)
         ELSE Ok(<<x_pos, y_pos>>)
    ELSE Ok(<<x_pos, y_pos>>)

\* image2array_masked gone wrong: the mask index is not applied
image2array_masked_unmasked(image) == image2array(image)

\* image2array_masked
image2array_masked(image) == BoolIndex(image2array(image), self._mask1d)

\* array_masked2image
array_masked2image(array) ==
    LET nx == self.Data.num_pixel_axes[1]
        ny == self.Data.num_pixel_axes[2]
        grid1d == BoolAssign(zeros1d(nx * ny), self._mask1d, array)
    IN  array2image(grid1d, nx, ny)

-----------------------------------------------------------------------------
(* ImageModel: the three terms and their sum *)

\* PixelSolver.lensingOperator.source2image for the lens model of the instance
source2image(source_light, kwargs_lens, kwargs_special) == source_light

\* util.array2image(array) with no shape given: the square image of the array
array2image_square(array) ==
    LET n == CHOOSE m \in 0..Len(array) : m * m <= Len(array) /\ (m + 1) * (m + 1) > Len(array)
    IN  array2image(array, n, n)

\* _source_surface_brightness_analytical_numerics
_source_surface_brightness_analytical_numerics(kwargs_source, kwargs_lens, kwargs_extinction, kwargs_special, de_lensed, k) ==
    LET grid == coordinates_evaluate(self.ImageNumerics)
        source_light ==
            IF de_lensed = TRUE
            THEN surface_brightness(self.SourceModel.profile_type_list, grid, kwargs_source, k)
            ELSE ArrScale(image_flux_joint(self.source_mapping, grid, kwargs_lens,
                                           kwargs_source, kwargs_special, k),
                          extinction(kwargs_extinction, kwargs_special))
        with_beam == IF self._pb # None THEN ArrMul(source_light, self._pb_1d)
                     ELSE source_light
    IN  ArrScale(with_beam, self._flux_scaling)

\* _source_surface_brightness_analytical
_source_surface_brightness_analytical(kwargs_source, kwargs_lens, kwargs_extinction, kwargs_special, unconvolved, de_lensed, k) ==
    re_size_convolve(self.ImageNumerics,
                     _source_surface_brightness_analytical_numerics(
                         kwargs_source, kwargs_lens, kwargs_extinction, kwargs_special,
                         de_lensed, k),
                     unconvolved)

\* _source_surface_brightness_pixelbased (the amplitudes of the model are
\* multiples of every pixel_width**2, so the division is exact)
_source_surface_brightness_pixelbased(kwargs_source, kwargs_lens, kwargs_extinction, kwargs_special, unconvolved, de_lensed, k, update_mapping) ==
    LET grid == coordinates_evaluate(self.SourceNumerics)
        source_light == surface_brightness(self.SourceModel.profile_type_list, grid,
                                           kwargs_source, k)
        convolved ==
            IF de_lensed = TRUE
            THEN re_size_convolve(self.SourceNumerics, source_light, unconvolved)
            ELSE re_size_convolve(self.ImageNumerics,
                                  source2image(source_light, kwargs_lens, kwargs_special),
                                  unconvolved)
        source_light_final == ImgDiv(convolved, self.Data.pixel_width * self.Data.pixel_width)
    IN  ImgScale(source_light_final, self._flux_scaling)

\* source_surface_brightness
source_surface_brightness(kwargs_source, kwargs_lens, kwargs_extinction, kwargs_special, unconvolved, de_lensed, k, update_pixelbased_mapping) ==
    IF Len(self.SourceModel.profile_type_list) = 0
    THEN Ok(zeros(self.Data.num_pixel_axes))
    ELSE IF self._pixelbased_bool = TRUE
    THEN Ok(_source_surface_brightness_pixelbased(
                kwargs_source, kwargs_lens, kwargs_extinction, kwargs_special,
                unconvolved, de_lensed, k, update_pixelbased_mapping))
    ELSE Ok(_source_surface_brightness_analytical(
                kwargs_source, kwargs_lens, kwargs_extinction, kwargs_special,
                unconvolved, de_lensed, k))

\* PixelSolverAfterSource gone wrong: update_mapping and de_lensed are not
\* looked at
PixelSolverAfterSourceAlways(kwargs_lens, de_lensed, update_mapping) ==
    IF Len(self.SourceModel.profile_type_list) # 0 /\ self._pixelbased_bool = TRUE
    THEN [self.PixelSolver EXCEPT !.lensing_mapping = Some(kwargs_lens)]
    ELSE self.PixelSolver

\* the pixel-based solver after source_surface_brightness: source2image with
\* update_mapping refreshes the lensing operator's mapping
PixelSolverAfterSource(kwargs_lens, de_lensed, update_mapping) ==
    IF /\ Len(self.SourceModel.profile_type_list) # 0
       /\ self._pixelbased_bool = TRUE
       /\ de_lensed # TRUE
       /\ update_mapping
    THEN [self.PixelSolver EXCEPT !.lensing_mapping = Some(kwargs_lens)]
    ELSE self.PixelSolver

\* _lens_surface_brightness_analytical
_lens_surface_brightness_analytical(kwargs_lens_light, unconvolved, k) ==
    LET grid == coordinates_evaluate(self.ImageNumerics)
        lens_light == surface_brightness(self.LensLightModel.profile_type_list, grid,
                                         kwargs_lens_light, k)
        with_beam == IF self._pb # None THEN ArrMul(lens_light, self._pb_1d) ELSE lens_light
    IN  ImgScale(re_size_convolve(self.ImageNumerics, with_beam, unconvolved),
                 self._flux_scaling)

\* _lens_surface_brightness_pixelbased
_lens_surface_brightness_pixelbased(kwargs_lens_light, k) ==
    LET grid == coordinates_evaluate(self.ImageNumerics)
        lens_light == surface_brightness(self.LensLightModel.profile_type_list, grid,
                                         kwargs_lens_light, k)
    IN  ImgScale(array2image_square(lens_light), self._flux_scaling)

\* lens_surface_brightness gone wrong: unconvolved output is not refused
lens_surface_brightness_unguarded(kwargs_lens_light, unconvolved, k) ==
    IF self._pixelbased_bool = TRUE
    THEN Ok(_lens_surface_brightness_pixelbased(kwargs_lens_light, k))
    ELSE Ok(_lens_surface_brightness_analytical(kwargs_lens_light, unconvolved, k))

\* lens_surface_brightness
lens_surface_brightness(kwargs_lens_light, unconvolved, k) ==
    IF self._pixelbased_bool = TRUE
    THEN IF unconvolved = TRUE
         THEN Raise(ErrDeconvolution)
         ELSE Ok(_lens_surface_brightness_pixelbased(kwargs_lens_light, k))
    ELSE Ok(_lens_surface_brightness_analytical(kwargs_lens_light, unconvolved, k))

\* the primary beam check gone wrong: the position list is not looked at
BeamRefusesPointsAlways(ra_pos) == self._pb # None

\* point_source, line 469: a primary beam and a position to paint
BeamRefusesPoints(ra_pos) == Len(ra_pos) # 0 /\ self._pb # None

\* point_source
point_source(kwargs_ps, kwargs_lens, kwargs_special, unconvolved, k) ==
    LET point_source_image == zeros(self.Data.num_pixel_axes)
        solved == point_source_list(self.PointSource.point_source_type_list, kwargs_ps,
                                    kwargs_lens, k)
        displaced == _displace_astrometry(solved[1], solved[2], kwargs_special)
    IN  IF unconvolved \/ self.PointSource = None THEN Ok(point_source_image)
        ELSE IF BeamRefusesPoints(solved[1]) THEN Raise(ErrPrimaryBeam)
        ELSE IF displaced.status # "ok" THEN Raise(displaced.status)
        ELSE Ok(ImgScale(ImgAdd(point_source_image,
                                point_source_rendering(self.ImageNumerics, displaced.val[1],
                                                       displaced.val[2], solved[3])),
                         self._flux_scaling))

\* whether point_source reaches PointSource.point_source_list
PointSourceSolved(unconvolved) == ~(unconvolved \/ self.PointSource = None)

\* model += term gone wrong: model = term
Overwrite(model, term) == term

\* model += term
Accumulate(model, term) == ImgAdd(model, term)

\* image: the terms in the order the code adds them; the first exception ends
\* the call.  evaluated lists the terms that were called.
image(kwargs_lens, kwargs_source, kwargs_lens_light, kwargs_ps, kwargs_extinction, kwargs_special, unconvolved, source_add, lens_light_add, point_source_add) ==
    LET model0 == zeros(self.Data.num_pixel_axes)
        source == source_surface_brightness(kwargs_source, kwargs_lens, kwargs_extinction,
                                            kwargs_special, unconvolved, FALSE, None, TRUE)
        lens_light == lens_surface_brightness(kwargs_lens_light, unconvolved, None)
        points == point_source(kwargs_ps, kwargs_lens, kwargs_special, unconvolved, None)
        ev1 == IF source_add = TRUE THEN <<"source">> ELSE <<>>
        ev2 == IF lens_light_add = TRUE THEN ev1 \o <<"lens_light">> ELSE ev1
        ev3 == IF point_source_add = TRUE THEN ev2 \o <<"point_source">> ELSE ev2
        model1 == IF source_add = TRUE THEN Accumulate(model0, source.val) ELSE model0
        model2 == IF lens_light_add = TRUE THEN Accumulate(model1, lens_light.val) ELSE model1
        model3 == IF point_source_add = TRUE THEN Accumulate(model2, points.val) ELSE model2
    IN  IF source_add = TRUE /\ source.status # "ok"
        THEN [status |-> source.status, val |-> <<>>, evaluated |-> ev1]
        ELSE IF lens_light_add = TRUE /\ lens_light.status # "ok"
        THEN [status |-> lens_light.status, val |-> <<>>, evaluated |-> ev2]
        ELSE IF point_source_add = TRUE /\ points.status # "ok"
        THEN [status |-> points.status, val |-> <<>>, evaluated |-> ev3]
        ELSE [status |-> "ok", val |-> model3, evaluated |-> ev3]

-----------------------------------------------------------------------------
(* ImageModel: the likelihood, the residuals and the model-uncertainty map *)

\* floating-point quotients as fractions in lowest terms; x / 0 is inf and
\* 0 / 0 is nan, as numpy divides
RECURSIVE GCD(_, _)
GCD(a, b) == IF b = 0 THEN a ELSE GCD(b, a % b)

Abs(x) == IF x < 0 THEN -x ELSE x

NaN == [num |-> 0, den |-> 0]
Inf == [num |-> 1, den |-> 0]

Rat(n, d) ==
    LET g == GCD(Abs(n), Abs(d))
        sign == IF d < 0 THEN -1 ELSE 1
    IN  [num |-> sign * (n \div g), den |-> sign * (d \div g)]

Divide(n, d) == IF d = 0 THEN (IF n = 0 THEN NaN ELSE Inf) ELSE Rat(n, d)

RatAdd(a, b) == Rat(a.num * b.den + b.num * a.den, a.den * b.den)

RECURSIVE RatSum(_)
RatSum(s) == IF s = <<>> THEN Rat(0, 1) ELSE RatAdd(Head(s), RatSum(Tail(s)))

\* np.sqrt of a perfect square
ISqrt(n) == CHOOSE r \in 0..n : r * r = n

\* a scalar argument where an array may be given (error_map=0)
Scalar(c) == [scalar |-> c]

\* the scalar 0 (the default of error_map) broadcast to the shape, an array as it is
Broadcast(x, shape) == IF x = Scalar(0) THEN zeros(shape) ELSE x

\* Data.data: the observed image
DataImage(data) ==
    [i \in 1..data.num_pixel_axes[1] |->
        [j \in 1..data.num_pixel_axes[2] |->
            ((i - 1) * data.num_pixel_axes[2] + j) * data.pixel_width]]

\* Data.C_D: the noise variance of every pixel (background noise)
C_D(data) ==
    [i \in 1..data.num_pixel_axes[1] |->
        [j \in 1..data.num_pixel_axes[2] |-> data.pixel_width * data.pixel_width]]

\* Data.C_D_model(model)
C_D_model(data, model) == C_D(data)

\* Data.log_likelihood(model, mask, error_map): -1/2 of the sum over the
\* pixels the mask selects of (model - data)^2 / (C_D + |error_map|)
log_likelihood(data, model, mask, error_map) ==
    LET d == image2array(DataImage(data))
        m == image2array(model)
        c == image2array(C_D_model(data, model))
        e == image2array(error_map)
        sel == image2array(mask)
        terms == [p \in DOMAIN d |->
                     IF sel[p] THEN Divide((m[p] - d[p]) * (m[p] - d[p]), c[p] + Abs(e[p]))
                     ELSE Rat(0, 1)]
        chi2 == RatSum(terms)
    IN  Rat(-chi2.num, 2 * chi2.den)

\* Numerics.psf_variance_map: the variance map of the PSF (zero when the PSF
\* has none) painted at every position
psf_variance_map(numerics, ra_pos, dec_pos, data) ==
    LET shape == numerics.pixel_grid.num_pixel_axes
        Hit(i, j) == {n \in DOMAIN ra_pos : ra_pos[n] = i /\ dec_pos[n] = j}
    IN  [i \in 1..shape[1] |-> [j \in 1..shape[2] |->
            IF numerics.psf.psf_variance_map_bool THEN 2 * Cardinality(Hit(i, j)) ELSE 0]]

\* num_data_evaluate gone wrong: every pixel is counted
num_data_evaluate_all_pixels == Len(image2array(self.likelihood_mask))

\* num_data_evaluate (property)
num_data_evaluate ==
    SumSeq([p \in DOMAIN image2array(self.likelihood_mask) |->
               IF image2array(self.likelihood_mask)[p] THEN 1 ELSE 0])

\* reduced_residuals gone wrong: the mask is not applied
reduced_residuals_unmasked(model, error_map) ==
    LET shape == self.Data.num_pixel_axes
        C_D_ == C_D_model(self.Data, model)
        e == Broadcast(error_map, shape)
    IN  [i \in 1..shape[1] |-> [j \in 1..shape[2] |->
            (model[i][j] - DataImage(self.Data)[i][j])
                \div ISqrt(C_D_[i][j] + Abs(e[i][j]))]]

\* reduced_residuals
reduced_residuals(model, error_map) ==
    LET shape == self.Data.num_pixel_axes
        mask == self.likelihood_mask
        C_D_ == C_D_model(self.Data, model)
        e == Broadcast(error_map, shape)
    IN  [i \in 1..shape[1] |-> [j \in 1..shape[2] |->
            ((model[i][j] - DataImage(self.Data)[i][j])
                 \div ISqrt(C_D_[i][j] + Abs(e[i][j])))
            * (IF mask[i][j] THEN 1 ELSE 0)]]

\* reduced_chi2
reduced_chi2(model, error_map) ==
    LET norm_res == image2array(reduced_residuals(model, error_map))
    IN  Divide(SumSeq([p \in DOMAIN norm_res |-> norm_res[p] * norm_res[p]]),
               num_data_evaluate)

\* _error_map_psf, lines 697 to 713: the loop from index k on (k counts from 0)
RECURSIVE ErrorMapLoop(_, _, _, _, _)
ErrorMapLoop(k, error_map, kwargs_lens, kwargs_ps, kwargs_special) ==
    IF k >= Len(self._psf_error_map_bool_list) THEN Ok(error_map)
    ELSE IF self._psf_error_map_bool_list[k + 1] # TRUE
    THEN ErrorMapLoop(k + 1, error_map, kwargs_lens, kwargs_ps, kwargs_special)
    ELSE LET solved == point_source_list(self.PointSource.point_source_type_list,
                                         kwargs_ps, kwargs_lens, Some(k))
             displaced == _displace_astrometry(solved[1], solved[2], kwargs_special)
         IN  IF Len(solved[1]) > 0
             THEN IF displaced.status # "ok" THEN Raise(displaced.status)
                  ELSE ErrorMapLoop(k + 1,
                                    ImgAdd(error_map,
                                           psf_variance_map(self.ImageNumerics,
                                                            displaced.val[1], displaced.val[2],
                                                            DataImage(self.Data))),
                                    kwargs_lens, kwargs_ps, kwargs_special)
             ELSE ErrorMapLoop(k + 1, error_map, kwargs_lens, kwargs_ps, kwargs_special)

\* _error_map_psf
_error_map_psf(kwargs_lens, kwargs_ps, kwargs_special) ==
    IF self._psf_error_map = TRUE
    THEN ErrorMapLoop(0, zeros(self.Data.num_pixel_axes), kwargs_lens, kwargs_ps, kwargs_special)
    ELSE Ok(zeros(self.Data.num_pixel_axes))

\* _error_map_model
_error_map_model(kwargs_lens, kwargs_ps, kwargs_special) ==
    _error_map_psf(kwargs_lens, kwargs_ps, kwargs_special)

\* whether _error_map_psf reaches PointSource.point_source_list
ErrorMapSolved ==
    /\ self._psf_error_map = TRUE
    /\ \E k \in DOMAIN self._psf_error_map_bool_list : self._psf_error_map_bool_list[k] = TRUE

\* likelihood_data_given_model gone wrong: the model-uncertainty map is left out
likelihood_data_given_model_no_error_map(kwargs_lens, kwargs_source, kwargs_lens_light, kwargs_ps, kwargs_extinction, kwargs_special) ==
    LET im_sim == image(kwargs_lens, kwargs_source, kwargs_lens_light, kwargs_ps,
                        kwargs_extinction, kwargs_special, FALSE, TRUE, TRUE, TRUE)
    IN  IF im_sim.status # "ok" THEN Raise(im_sim.status)
        ELSE Ok(log_likelihood(self.Data, im_sim.val, self.likelihood_mask,
                               zeros(self.Data.num_pixel_axes)))

\* likelihood_data_given_model
likelihood_data_given_model(kwargs_lens, kwargs_source, kwargs_lens_light, kwargs_ps, kwargs_extinction, kwargs_special) ==
    LET im_sim == image(kwargs_lens, kwargs_source, kwargs_lens_light, kwargs_ps,
                        kwargs_extinction, kwargs_special, FALSE, TRUE, TRUE, TRUE)
        model_error == _error_map_model(kwargs_lens, kwargs_ps, kwargs_special)
    IN  IF im_sim.status # "ok" THEN Raise(im_sim.status)
        ELSE IF model_error.status # "ok" THEN Raise(model_error.status)
        ELSE Ok(log_likelihood(self.Data, im_sim.val, self.likelihood_mask, model_error.val))

\* error_response
error_response(kwargs_lens, kwargs_ps, kwargs_special) ==
    LET model_error == _error_map_model(kwargs_lens, kwargs_ps, kwargs_special)
    IN  IF model_error.status # "ok" THEN Raise(model_error.status)
        ELSE Ok(<<image2array_masked(ImgAdd(C_D(self.Data), model_error.val)),
                  model_error.val>>)

-----------------------------------------------------------------------------
(* The calls made on an instance *)

NoRet == [op |-> "none"]

\* the caller has the result of the last call and makes the next one
Idle == ret = NoRet

\* one amplitude per profile of the list
KwargsLight(profile_type_list) == {[i \in 1..Len(profile_type_list) |-> 4]}

\* one parameter dict per point-source model: n images in a row of the grid
KwargsPS(point_source_type_list) ==
    IF Len(point_source_type_list) = 0 THEN {<<>>}
    ELSE {[m \in 1..Len(point_source_type_list) |->
             [ra_image |-> [p \in 1..n |-> 1], dec_image |-> [p \in 1..n |-> Min(p, NY)],
              point_amp |-> [p \in 1..n |-> p]]] : n \in 0..MaxPos}

\* the special parameter bags of the image calls
KwargsSpecial ==
    {None,
     "delta_x_image" :> <<1>>,
     ("delta_x_image" :> <<1>>) @@ ("delta_y_image" :> <<0>>),
     ("delta_x_image" :> [p \in 1..MaxPos |-> 1]) @@ ("delta_y_image" :> [p \in 1..MaxPos |-> 0])}

\* PointSource after a call that reached point_source_list: the solved
\* positions are kept when the cache is switched on
PointSourceAfterCall(solved) ==
    IF solved /\ point_source_obj.save_cache
    THEN [point_source_obj EXCEPT !.cache = TRUE]
    ELSE point_source_obj

\* image(...)
CallImage ==
    /\ phase = "ready"
    /\ \E unconvolved \in BOOLEAN, source_add \in BOOLEAN, lens_light_add \in BOOLEAN,
          point_source_add \in BOOLEAN, kwargs_special \in KwargsSpecial :
       \E kwargs_ps \in KwargsPS(self.PointSource.point_source_type_list),
          kwargs_source \in KwargsLight(self.SourceModel.profile_type_list),
          kwargs_lens_light \in KwargsLight(self.LensLightModel.profile_type_list) :
          LET r == image(<<>>, kwargs_source, kwargs_lens_light, kwargs_ps, None,
                         kwargs_special, unconvolved, source_add, lens_light_add,
                         point_source_add)
          IN  /\ ret' = [op |-> "image",
                         args |-> [kwargs_lens |-> <<>>, kwargs_source |-> kwargs_source,
                                   kwargs_lens_light |-> kwargs_lens_light,
                                   kwargs_ps |-> kwargs_ps, kwargs_special |-> kwargs_special,
                                   unconvolved |-> unconvolved, source_add |-> source_add,
                                   lens_light_add |-> lens_light_add,
                                   point_source_add |-> point_source_add],
                         status |-> r.status, val |-> r.val, evaluated |-> r.evaluated]
              /\ self' = [self EXCEPT !.PixelSolver =
                            IF Contains(r.evaluated, "source")
                            THEN PixelSolverAfterSource(<<>>, FALSE, TRUE) ELSE @]
              /\ point_source_obj' =
                    PointSourceAfterCall(Contains(r.evaluated, "point_source")
                                         /\ PointSourceSolved(unconvolved))
    /\ UNCHANGED <<phase, args, psf_pixel_size, ctor_error>>

\* source_surface_brightness(...)
CallSourceSurfaceBrightness ==
    /\ phase = "ready"
    /\ \E unconvolved \in BOOLEAN, de_lensed \in BOOLEAN, update_mapping \in BOOLEAN,
          kwargs_source \in KwargsLight(self.SourceModel.profile_type_list),
          k \in {None, Some(0)} :
          LET r == source_surface_brightness(kwargs_source, <<>>, None, None, unconvolved,
                                             de_lensed, k, update_mapping)
          IN  /\ ret' = [op |-> "source_surface_brightness",
                         args |-> [kwargs_lens |-> <<>>, kwargs_source |-> kwargs_source,
                                   unconvolved |-> unconvolved, de_lensed |-> de_lensed,
                                   k |-> k, update_pixelbased_mapping |-> update_mapping],
                         status |-> r.status, val |-> r.val]
              /\ self' = [self EXCEPT !.PixelSolver =
                            PixelSolverAfterSource(<<>>, de_lensed, update_mapping)]
    /\ UNCHANGED <<phase, args, psf_pixel_size, point_source_obj, ctor_error>>

\* lens_surface_brightness(...)
CallLensSurfaceBrightness ==
    /\ phase = "ready"
    /\ \E unconvolved \in BOOLEAN, k \in {None, Some(0)},
          kwargs_lens_light \in KwargsLight(self.LensLightModel.profile_type_list) :
          LET r == lens_surface_brightness(kwargs_lens_light, unconvolved, k)
          IN  ret' = [op |-> "lens_surface_brightness",
                      args |-> [kwargs_lens_light |-> kwargs_lens_light,
                                unconvolved |-> unconvolved, k |-> k],
                      status |-> r.status, val |-> r.val]
    /\ UNCHANGED <<phase, args, self, psf_pixel_size, point_source_obj, ctor_error>>

\* point_source(...)
CallPointSource ==
    /\ phase = "ready"
    /\ \E unconvolved \in BOOLEAN, kwargs_special \in KwargsSpecial,
          kwargs_ps \in KwargsPS(self.PointSource.point_source_type_list) :
          LET r == point_source(kwargs_ps, <<>>, kwargs_special, unconvolved, None)
          IN  /\ ret' = [op |-> "point_source",
                         args |-> [kwargs_ps |-> kwargs_ps, kwargs_lens |-> <<>>,
                                   kwargs_special |-> kwargs_special,
                                   unconvolved |-> unconvolved, k |-> None],
                         status |-> r.status, val |-> r.val]
              /\ point_source_obj' = PointSourceAfterCall(PointSourceSolved(unconvolved))
    /\ UNCHANGED <<phase, args, self, psf_pixel_size, ctor_error>>

\* reset_point_source_cache(cache)
reset_point_source_cache ==
    /\ phase = "ready"
    /\ \E cache \in BOOLEAN :
          point_source_obj' = [point_source_obj EXCEPT !.cache = FALSE, !.save_cache = cache]
    /\ UNCHANGED <<phase, args, self, psf_pixel_size, ctor_error, ret>>

\* the PSF and data objects the updates are called with
UpdatePSFs == {[psf_type |-> "PIXEL", psf_variance_map_bool |-> FALSE],
               [psf_type |-> "GAUSSIAN", psf_variance_map_bool |-> TRUE]}
UpdateDatas == {[pixel_width |-> 1, num_pixel_axes |-> <<NX, NY>>, primary_beam |-> None],
                [pixel_width |-> 2, num_pixel_axes |-> <<NX, NY>>,
                 primary_beam |-> PrimaryBeam, flux_scaling |-> 3]}

\* update_psf(psf_class)
update_psf ==
    /\ phase = "ready"
    /\ \E psf_class \in UpdatePSFs :
          /\ self' = [self EXCEPT
                        !.PSF = psf_class,
                        !.ImageNumerics =
                            NumericsSubFrame(self.Data, psf_class, self._kwargs_numerics)]
          /\ psf_pixel_size' = [psf_pixel_size EXCEPT ![psf_class] = self.Data.pixel_width]
    /\ UNCHANGED <<phase, args, point_source_obj, ctor_error, ret>>

\* update_data(data_class)
update_data ==
    /\ phase = "ready"
    /\ \E data_class \in UpdateDatas :
          self' = [self EXCEPT !.Data = data_class,
                               !.ImageNumerics.pixel_grid = data_class]
    /\ UNCHANGED <<phase, args, psf_pixel_size, point_source_obj, ctor_error, ret>>

\* the model images the residuals are taken of: the data, and the data
\* changed at all pixels, at the first pixel and at the last (by a multiple of
\* every standard deviation, so that the residuals are whole numbers)
Bump(shape, px, c) ==
    [i \in 1..shape[1] |-> [j \in 1..shape[2] |-> IF <<i, j>> = px THEN c ELSE 0]]

ModelImages(data) ==
    LET shape == data.num_pixel_axes
        d == DataImage(data)
    IN  {d,
         ImgAdd(d, [i \in 1..shape[1] |-> [j \in 1..shape[2] |-> 6]]),
         ImgAdd(d, Bump(shape, <<1, 1>>, 6)),
         ImgAdd(d, Bump(shape, shape, -6))}

\* the error maps: the default 0, and a map that makes the variance of the
\* first and of the last pixel the next perfect square
ErrorMaps(data) ==
    LET shape == data.num_pixel_axes
        step == 2 * data.pixel_width + 1
    IN  {Scalar(0),
         ImgAdd(Bump(shape, <<1, 1>>, step), Bump(shape, shape, -step))}

\* reduced_residuals(model, error_map)
CallReducedResiduals ==
    /\ phase = "ready"
    /\ \E model \in ModelImages(self.Data), error_map \in ErrorMaps(self.Data) :
          ret' = [op |-> "reduced_residuals",
                  args |-> [model |-> model, error_map |-> error_map],
                  status |-> "ok", val |-> reduced_residuals(model, error_map)]
    /\ UNCHANGED <<phase, args, self, psf_pixel_size, point_source_obj, ctor_error>>

\* reduced_chi2(model, error_map)
CallReducedChi2 ==
    /\ phase = "ready"
    /\ \E model \in ModelImages(self.Data), error_map \in ErrorMaps(self.Data) :
          ret' = [op |-> "reduced_chi2",
                  args |-> [model |-> model, error_map |-> error_map],
                  status |-> "ok", val |-> reduced_chi2(model, error_map)]
    /\ UNCHANGED <<phase, args, self, psf_pixel_size, point_source_obj, ctor_error>>

\* num_data_evaluate
CallNumDataEvaluate ==
    /\ phase = "ready"
    /\ ret' = [op |-> "num_data_evaluate", args |-> <<>>,
               status |-> "ok", val |-> num_data_evaluate]
    /\ UNCHANGED <<phase, args, self, psf_pixel_size, point_source_obj, ctor_error>>

\* likelihood_data_given_model(...)
CallLikelihoodDataGivenModel ==
    /\ phase = "ready"
    /\ \E kwargs_special \in KwargsSpecial,
          kwargs_ps \in KwargsPS(self.PointSource.point_source_type_list),
          kwargs_source \in KwargsLight(self.SourceModel.profile_type_list),
          kwargs_lens_light \in KwargsLight(self.LensLightModel.profile_type_list) :
          LET r == likelihood_data_given_model(<<>>, kwargs_source, kwargs_lens_light,
                                               kwargs_ps, None, kwargs_special)
              im_sim == image(<<>>, kwargs_source, kwargs_lens_light, kwargs_ps, None,
                              kwargs_special, FALSE, TRUE, TRUE, TRUE)
          IN  /\ ret' = [op |-> "likelihood_data_given_model",
                         args |-> [kwargs_lens |-> <<>>, kwargs_source |-> kwargs_source,
                                   kwargs_lens_light |-> kwargs_lens_light,
                                   kwargs_ps |-> kwargs_ps, kwargs_special |-> kwargs_special],
                         status |-> r.status, val |-> r.val]
              /\ self' = [self EXCEPT !.PixelSolver = PixelSolverAfterSource(<<>>, FALSE, TRUE)]
              /\ point_source_obj' =
                    PointSourceAfterCall(
                        \/ Contains(im_sim.evaluated, "point_source") /\ PointSourceSolved(FALSE)
                        \/ im_sim.status = "ok" /\ ErrorMapSolved)
    /\ UNCHANGED <<phase, args, psf_pixel_size, ctor_error>>

\* error_response(kwargs_lens, kwargs_ps, kwargs_special)
CallErrorResponse ==
    /\ phase = "ready"
    /\ \E kwargs_special \in KwargsSpecial,
          kwargs_ps \in KwargsPS(self.PointSource.point_source_type_list) :
          LET r == error_response(<<>>, kwargs_ps, kwargs_special)
          IN  /\ ret' = [op |-> "error_response",
                         args |-> [kwargs_lens |-> <<>>, kwargs_ps |-> kwargs_ps,
                                   kwargs_special |-> kwargs_special],
                         status |-> r.status, val |-> r.val]
              /\ point_source_obj' = PointSourceAfterCall(ErrorMapSolved)
    /\ UNCHANGED <<phase, args, self, psf_pixel_size, ctor_error>>

\* the caller takes the result
Return ==
    /\ ret # NoRet
    /\ ret' = NoRet
    /\ UNCHANGED <<phase, args, self, psf_pixel_size, point_source_obj, ctor_error>>

\* the arguments of __init__, the ones not listed left at their default None
ArgsOf(data_class, psf_class, source_model_class, lens_light_model_class, point_source_class, kwargs_numerics, likelihood_mask, kwargs_pixelbased) ==
    [data_class |-> data_class, psf_class |-> psf_class, lens_model_class |-> None,
     source_model_class |-> source_model_class,
     lens_light_model_class |-> lens_light_model_class,
     point_source_class |-> point_source_class, extinction_class |-> None,
     kwargs_numerics |-> kwargs_numerics, likelihood_mask |-> likelihood_mask,
     psf_error_map_bool_list |-> None, kwargs_pixelbased |-> kwargs_pixelbased]

\* before __init__: nothing assigned, no PSF pixel size set, a PointSource
\* with no lens model, no search window and its cache switched off
InitWith(argset) ==
    /\ phase = "new"
    /\ args \in argset
    /\ self = Blank
    /\ psf_pixel_size = [psf \in PSFClasses |-> 0]
    /\ point_source_obj = [lens_model |-> None, search_window |-> None,
                           save_cache |-> FALSE, cache |-> FALSE]
    /\ ctor_error = ""
    /\ ret = NoRet

MainArgs ==
    {ArgsOf(data, psf, LightModel(src), LightModel(ll), PointSource(ps), None, None, None) :
        data \in UpdateDatas, psf \in UpdatePSFs,
        src \in {<<>>, <<"SERSIC">>, <<"SLIT_STARLETS">>},
        ll \in {<<>>, <<"SERSIC">>},
        ps \in {<<>>, <<"LENSED_POSITION">>}}

Init == InitWith(MainArgs)

Next ==
    \/ Construct
    \/ Idle /\ CallImage
    \/ Idle /\ CallSourceSurfaceBrightness
    \/ Idle /\ CallLensSurfaceBrightness
    \/ Idle /\ CallPointSource
    \/ Idle /\ reset_point_source_cache
    \/ Idle /\ update_psf
    \/ Idle /\ update_data
    \/ Return

Spec == Init /\ [][Next]_vars

-----------------------------------------------------------------------------
(* The mask conversions on their own: every likelihood mask, images and     *)
(* arrays drawn from small sets                                             *)

\* likelihood_mask as the caller may give it: None, or an array whose
\* selected entries are True (1) or any other non-zero number
MaskPatterns == [1..NX -> [1..NY -> {0, 1}]]
RawMasks == MaskPatterns \cup {ImgScale(m, 2) : m \in MaskPatterns}

\* 2D images of the data's shape: every image of zeros and ones, and the
\* image whose pixels all differ
TestImages ==
    [1..NX -> [1..NY -> {0, 1}]] \cup {array2image([p \in 1..(NX * NY) |-> p + 1], NX, NY)}

\* 1D arrays of n entries, likewise
TestArrays(n) == [1..n -> {0, 1}] \cup {[p \in 1..n |-> p + 1]}

\* image2array_masked(image)
CallImage2ArrayMasked ==
    /\ phase = "ready"
    /\ \E img \in TestImages :
          ret' = [op |-> "image2array_masked", args |-> [image |-> img],
                  status |-> "ok", val |-> image2array_masked(img)]
    /\ UNCHANGED <<phase, args, self, psf_pixel_size, point_source_obj, ctor_error>>

\* array_masked2image(array)
CallArrayMasked2Image ==
    /\ phase = "ready"
    /\ \E array \in TestArrays(CountTrue(self._mask1d, Len(self._mask1d))) :
          ret' = [op |-> "array_masked2image", args |-> [array |-> array],
                  status |-> "ok", val |-> array_masked2image(array)]
    /\ UNCHANGED <<phase, args, self, psf_pixel_size, point_source_obj, ctor_error>>

DefaultData == [pixel_width |-> 1, num_pixel_axes |-> <<NX, NY>>, primary_beam |-> None]
DefaultPSF == [psf_type |-> "PIXEL", psf_variance_map_bool |-> FALSE]

MaskArgs ==
    {ArgsOf(DefaultData, DefaultPSF, None, None, None, None, mask, None) : mask \in RawMasks}

InitMask ==
    \/ InitWith(MaskArgs)
    \/ InitWith({ArgsOf(DefaultData, DefaultPSF, None, None, None, None, None, None)})

NextMask ==
    \/ Construct
    \/ Idle /\ CallImage2ArrayMasked
    \/ Idle /\ CallArrayMasked2Image
    \/ Return

SpecMask == InitMask /\ [][NextMask]_vars

-----------------------------------------------------------------------------
(* The astrometric displacement on its own: position lists and special bags *)
(* drawn from small sets                                                    *)

\* kwargs_special: None, or a dict holding any of the two offset arrays
OffsetArrays == SeqsUpTo({0, 1}, MaxPos)
SpecialBags ==
    {None, EmptyDict}
    \cup {"delta_x_image" :> dx : dx \in OffsetArrays}
    \cup {"delta_y_image" :> dy : dy \in OffsetArrays}
    \cup {("delta_x_image" :> dx) @@ ("delta_y_image" :> dy) :
             dx \in OffsetArrays, dy \in OffsetArrays}

\* _displace_astrometry(x_pos, y_pos, kwargs_special)
CallDisplaceAstrometry ==
    /\ \E n \in 0..MaxPos :
       \E x_pos \in [1..n -> {1, 2}], y_pos \in [1..n -> {1, 2}],
          kwargs_special \in SpecialBags :
          LET r == _displace_astrometry(x_pos, y_pos, kwargs_special)
          IN  ret' = [op |-> "_displace_astrometry",
                      args |-> [x_pos |-> x_pos, y_pos |-> y_pos,
                                kwargs_special |-> kwargs_special],
                      status |-> r.status, val |-> r.val]
    /\ UNCHANGED <<phase, args, self, psf_pixel_size, point_source_obj, ctor_error>>

InitAstro ==
    InitWith({ArgsOf(DefaultData, DefaultPSF, None, None, None, None, None, None)})

NextAstro ==
    \/ Idle /\ CallDisplaceAstrometry
    \/ Return

SpecAstro == InitAstro /\ [][NextAstro]_vars

-----------------------------------------------------------------------------
(* Construction on its own: source profile lists, PSF types and numerics    *)
(* settings drawn from small sets                                           *)

ProfileTypes == {"SERSIC", "SLIT_STARLETS", "SLIT_STARLETS_GEN2"}

\* kwargs_numerics: None, or a dict holding any of the three settings
NumericsDicts ==
    {[key \in keys |->
        CASE key = "compute_mode" -> mode
          [] key = "supersampling_convolution" -> conv
          [] OTHER -> factor] :
        keys \in SUBSET {"compute_mode", "supersampling_convolution", "supersampling_factor"},
        mode \in {"regular", "adaptive"}, conv \in BOOLEAN, factor \in {1, 2}}

ConstructArgs ==
    {ArgsOf(DefaultData, psf, LightModel(src), None, None, kwargs_numerics, None,
            kwargs_pixelbased) :
        psf \in {c \in PSFClasses : ~c.psf_variance_map_bool},
        src \in SeqsUpTo(ProfileTypes, MaxProfiles),
        kwargs_numerics \in {None} \cup NumericsDicts,
        kwargs_pixelbased \in {None, "supersampling_factor_source" :> 2}}

InitConstruct == InitWith(ConstructArgs)

NextConstruct == Construct

SpecConstruct == InitConstruct /\ [][NextConstruct]_vars

-----------------------------------------------------------------------------
(* The statistics on their own: likelihood masks and data grids drawn from  *)
(* small sets, the updates and the image in between                         *)

\* likelihood masks: no pixel, every pixel, one pixel, and every pixel but the
\* first given as a number other than 1
StatMasks ==
    {Bump(<<NX, NY>>, px, 1) : px \in Pixels}
    \cup {zeros(<<NX, NY>>),
          [i \in 1..NX |-> [j \in 1..NY |-> 1]],
          [i \in 1..NX |-> [j \in 1..NY |-> IF <<i, j>> = <<1, 1>> THEN 0 ELSE 2]]}

StatArgs ==
    {ArgsOf(data, DefaultPSF, None, None, None, None, mask, None) :
        data \in UpdateDatas, mask \in StatMasks}

InitStats ==
    \/ InitWith(StatArgs)
    \/ InitWith({ArgsOf(data, DefaultPSF, None, None, None, None, None, None) :
                    data \in UpdateDatas})

NextStats ==
    \/ Construct
    \/ Idle /\ CallReducedResiduals
    \/ Idle /\ CallReducedChi2
    \/ Idle /\ CallNumDataEvaluate
    \/ Idle /\ CallImage
    \/ Idle /\ reset_point_source_cache
    \/ Idle /\ update_psf
    \/ Idle /\ update_data
    \/ Return

SpecStats == InitStats /\ [][NextStats]_vars

-----------------------------------------------------------------------------
(* Every operation of an instance: the calls of Spec, the likelihood, the   *)
(* error response, the statistics and the mask conversions                  *)

NextAll ==
    \/ Next
    \/ Idle /\ CallLikelihoodDataGivenModel
    \/ Idle /\ CallErrorResponse
    \/ Idle /\ CallReducedResiduals
    \/ Idle /\ CallReducedChi2
    \/ Idle /\ CallNumDataEvaluate
    \/ Idle /\ CallImage2ArrayMasked
    \/ Idle /\ CallArrayMasked2Image

SpecAll == Init /\ [][NextAll]_vars

-----------------------------------------------------------------------------
(* Properties: the mask conversions (SpecMask) *)

\* C1: array_masked2image(image2array_masked(img)) is img where the mask is
\* True and 0 where it is False, and image2array_masked(array_masked2image(a))
\* is a for every array a with one entry per True mask entry.
C1_MaskRoundTrip ==
    /\ ret.op = "image2array_masked" =>
          LET back == array_masked2image(ret.val)
          IN  /\ Len(ret.val) = CountTrue(self._mask1d, Len(self._mask1d))
              /\ \A px \in Pixels :
                    back[px[1]][px[2]] =
                        IF self.likelihood_mask[px[1]][px[2]]
                        THEN ret.args.image[px[1]][px[2]] ELSE 0
    /\ ret.op = "array_masked2image" =>
          /\ Len(ret.val) = self.Data.num_pixel_axes[1]
          /\ \A i \in DOMAIN ret.val : Len(ret.val[i]) = self.Data.num_pixel_axes[2]
          /\ image2array_masked(ret.val) = ret.args.array

\* a masked-out pixel of the image is not zero, another pixel is kept
C1_Witness ==
    /\ ret.op = "image2array_masked"
    /\ \E px \in Pixels : ~self.likelihood_mask[px[1]][px[2]] /\ ret.args.image[px[1]][px[2]] # 0
    /\ \E px \in Pixels : self.likelihood_mask[px[1]][px[2]] /\ ret.args.image[px[1]][px[2]] # 0

-----------------------------------------------------------------------------
(* Properties: the astrometric displacement (SpecAstro) *)

HasBothOffsets(kwargs_special) ==
    /\ kwargs_special # None
    /\ "delta_x_image" \in DOMAIN kwargs_special
    /\ "delta_y_image" \in DOMAIN kwargs_special

\* positions shifted by the offsets padded with zeros
Shifted(pos, delta) ==
    [p \in DOMAIN pos |-> pos[p] + (IF p <= Len(delta) THEN delta[p] ELSE 0)]

\* C9: with offset arrays no longer than the position lists, the first
\* entries are shifted by the offsets, the others are unchanged, x and y
\* apart, and the lists keep their length.
C9_DisplacePadsWithZero ==
    (/\ ret.op = "_displace_astrometry"
     /\ HasBothOffsets(ret.args.kwargs_special)
     /\ Len(ret.args.kwargs_special["delta_x_image"]) <= Len(ret.args.x_pos)
     /\ Len(ret.args.kwargs_special["delta_y_image"]) <= Len(ret.args.y_pos))
    => /\ ret.status = "ok"
       /\ Len(ret.val[1]) = Len(ret.args.x_pos)
       /\ Len(ret.val[2]) = Len(ret.args.y_pos)
       /\ ret.val[1] = Shifted(ret.args.x_pos, ret.args.kwargs_special["delta_x_image"])
       /\ ret.val[2] = Shifted(ret.args.y_pos, ret.args.kwargs_special["delta_y_image"])

\* two positions, one non-zero x offset, no y offset
C9_Witness ==
    /\ ret.op = "_displace_astrometry"
    /\ HasBothOffsets(ret.args.kwargs_special)
    /\ Len(ret.args.x_pos) = 2
    /\ ret.args.kwargs_special["delta_x_image"] = <<1>>
    /\ ret.args.kwargs_special["delta_y_image"] = <<>>
    /\ ret.status = "ok"

\* C10: with no special bag, or a bag lacking an offset key (also when only
\* one of the two keys is there), the positions come back unchanged and no
\* error is raised.
C10_NoOpWithoutOffsets ==
    (/\ ret.op = "_displace_astrometry"
     /\ ~HasBothOffsets(ret.args.kwargs_special))
    => /\ ret.status = "ok"
       /\ ret.val = <<ret.args.x_pos, ret.args.y_pos>>

-----------------------------------------------------------------------------
(* Properties: construction (SpecConstruct) *)

\* the source profile list __init__ was given
GivenSourceList ==
    IF args.source_model_class = None THEN <<>> ELSE args.source_model_class.profile_type_list

\* the numerics settings __init__ was given
GivenNumerics == IF args.kwargs_numerics = None THEN EmptyDict ELSE args.kwargs_numerics

HasPixelBasedProfile(list) == \E i \in DOMAIN list : list[i] \in PixelBasedProfiles

\* exactly one profile, of the pixel-based family
SinglePixelBasedProfile(list) == Len(list) = 1 /\ list[1] \in PixelBasedProfiles

\* C4: pixel-based mode is detected exactly for a list of one pixel-based
\* profile; a pixel-based profile next to any other profile makes __init__
\* fail; a list with no pixel-based profile gives an analytical instance.
C4_ModeDetection ==
    phase # "new" =>
        /\ self._pixelbased_bool = TRUE <=> SinglePixelBasedProfile(GivenSourceList)
        /\ (HasPixelBasedProfile(GivenSourceList) /\ Len(GivenSourceList) > 1)
              => phase = "failed" /\ ctor_error = ErrMixedSource
        /\ ~HasPixelBasedProfile(GivenSourceList)
              => /\ phase = "ready"
                 /\ self._pixelbased_bool = FALSE
                 /\ self.source_mapping # None
                 /\ self.PixelSolver = None

\* a pixel-based profile after an analytical one: __init__ has failed
C4_Witness ==
    /\ phase = "failed"
    /\ GivenSourceList = <<"SERSIC", "SLIT_STARLETS_GEN2">>
    /\ ctor_error = ErrMixedSource

\* C5 as stated: in pixel-based mode every PSF type other than the pixelated
\* kernel makes __init__ fail before the source numerics and the solver exist.
C5_NonPixelPSFRefused ==
    (/\ phase # "new"
     /\ SinglePixelBasedProfile(GivenSourceList)
     /\ args.psf_class.psf_type # "PIXEL")
    => /\ phase = "failed"
       /\ self.SourceNumerics = None
       /\ self.PixelSolver = None

\* C5 amended: in pixel-based mode every PSF type other than the pixelated
\* kernel and NONE makes __init__ fail with the PSF error, before the source
\* numerics and the solver exist.
C5_NonPixelNonNonePSFRefused ==
    (/\ phase # "new"
     /\ SinglePixelBasedProfile(GivenSourceList)
     /\ args.psf_class.psf_type \notin {"PIXEL", "NONE"})
    => /\ phase = "failed"
       /\ ctor_error = ErrPSFType
       /\ self.SourceNumerics = None
       /\ self.PixelSolver = None

\* a Gaussian PSF with a pixel-based source: __init__ has failed
C5_Witness ==
    /\ phase = "failed"
    /\ SinglePixelBasedProfile(GivenSourceList)
    /\ args.psf_class.psf_type = "GAUSSIAN"
    /\ ctor_error = ErrPSFType

RequestsSupersampledConvolution ==
    get(GivenNumerics, "supersampling_convolution", FALSE) = TRUE
RequestsOtherComputeMode == get(GivenNumerics, "compute_mode", "regular") # "regular"
RequestsSupersamplingFactorAboveOne == get(GivenNumerics, "supersampling_factor", 1) > 1

\* C6 as stated: in pixel-based mode, numerics that ask for supersampled
\* convolution or for a compute mode other than regular make __init__ fail.
C6_SupersampledOrIrregularRefused ==
    (/\ phase # "new"
     /\ SinglePixelBasedProfile(GivenSourceList)
     /\ (RequestsSupersampledConvolution \/ RequestsOtherComputeMode))
    => phase = "failed"

\* C6 amended: in pixel-based mode, numerics that ask for supersampled
\* convolution with a supersampling factor above 1, or for a compute mode
\* other than regular, make __init__ fail.
C6_SupersampledAboveOneOrIrregularRefused ==
    (/\ phase # "new"
     /\ SinglePixelBasedProfile(GivenSourceList)
     /\ \/ RequestsSupersampledConvolution /\ RequestsSupersamplingFactorAboveOne
        \/ RequestsOtherComputeMode)
    => /\ phase = "failed"
       /\ ctor_error \in {ErrPSFType, ErrComputeMode, ErrSupersampling}
       /\ args.psf_class.psf_type \in {"PIXEL", "NONE"}
             => ctor_error = IF RequestsOtherComputeMode THEN ErrComputeMode
                             ELSE ErrSupersampling

\* supersampled convolution with factor 2 on the regular grid: __init__ has failed
C6_Witness ==
    /\ phase = "failed"
    /\ SinglePixelBasedProfile(GivenSourceList)
    /\ RequestsSupersampledConvolution /\ RequestsSupersamplingFactorAboveOne
    /\ ~RequestsOtherComputeMode
    /\ ctor_error = ErrSupersampling

-----------------------------------------------------------------------------
(* Properties: the image and its terms (Spec) *)

\* what the three term methods return for the arguments of the last image call
TermSource ==
    source_surface_brightness(ret.args.kwargs_source, ret.args.kwargs_lens, None,
                              ret.args.kwargs_special, ret.args.unconvolved, FALSE, None, TRUE)
TermLensLight == lens_surface_brightness(ret.args.kwargs_lens_light, ret.args.unconvolved, None)
TermPointSource ==
    point_source(ret.args.kwargs_ps, ret.args.kwargs_lens, ret.args.kwargs_special,
                 ret.args.unconvolved, None)

\* the pixel of a term, 0 for a term that is switched off
TermPixel(add, term, px) == IF add THEN term.val[px[1]][px[2]] ELSE 0

\* C2: image returns the pixel-wise sum of the terms that are switched on,
\* each as its own method returns it for the same parameters; a term that is
\* switched off is not called; an exception of image is the exception of a
\* term that is switched on; with all three off the image is all zero and
\* nothing is raised.
C2_ImageIsSumOfEnabledTerms ==
    ret.op = "image" =>
        LET a == ret.args
            failed == \/ a.source_add /\ TermSource.status # "ok"
                      \/ a.lens_light_add /\ TermLensLight.status # "ok"
                      \/ a.point_source_add /\ TermPointSource.status # "ok"
        IN  /\ Contains(ret.evaluated, "source") => a.source_add
            /\ Contains(ret.evaluated, "lens_light") => a.lens_light_add
            /\ Contains(ret.evaluated, "point_source") => a.point_source_add
            /\ ~failed =>
                  /\ ret.status = "ok"
                  /\ Len(ret.val) = self.Data.num_pixel_axes[1]
                  /\ \A px \in Pixels :
                        ret.val[px[1]][px[2]] =
                            TermPixel(a.source_add, TermSource, px)
                            + TermPixel(a.lens_light_add, TermLensLight, px)
                            + TermPixel(a.point_source_add, TermPointSource, px)
            /\ failed =>
                  \/ a.source_add /\ ret.status = TermSource.status /\ ret.status # "ok"
                  \/ a.lens_light_add /\ ret.status = TermLensLight.status /\ ret.status # "ok"
                  \/ a.point_source_add /\ ret.status = TermPointSource.status
                     /\ ret.status # "ok"
            /\ (~a.source_add /\ ~a.lens_light_add /\ ~a.point_source_add) =>
                  /\ ret.status = "ok"
                  /\ ret.evaluated = <<>>
                  /\ ret.val = zeros(self.Data.num_pixel_axes)

\* source and point sources on, lens light off, both terms not zero
C2_Witness ==
    /\ ret.op = "image"
    /\ ret.status = "ok"
    /\ ret.args.source_add /\ ~ret.args.lens_light_add /\ ret.args.point_source_add
    /\ TermSource.val # zeros(self.Data.num_pixel_axes)
    /\ TermPointSource.val # zeros(self.Data.num_pixel_axes)
    /\ Len(self.LensLightModel.profile_type_list) > 0

NoProfiles ==
    /\ Len(self.SourceModel.profile_type_list) = 0
    /\ Len(self.LensLightModel.profile_type_list) = 0
    /\ Len(self.PointSource.point_source_type_list) = 0

\* C3: with no source, lens-light and point-source profiles, image with all
\* three terms on returns the all-zero image of the data's shape, whatever
\* the parameters and with or without a primary beam.
C3_NoProfilesGiveZeroImage ==
    (/\ ret.op = "image"
     /\ NoProfiles
     /\ ret.args.source_add /\ ret.args.lens_light_add /\ ret.args.point_source_add)
    => /\ ret.status = "ok"
       /\ ret.val = zeros(self.Data.num_pixel_axes)

\* C7: in pixel-based mode lens_surface_brightness(unconvolved=True) and
\* image(unconvolved=True) with the lens light on raise the deconvolution
\* error, whatever the lens-light profile list; in analytical mode, and for
\* convolved output, they never do.
C7_UnconvolvedLensLightRefused ==
    /\ ret.op = "lens_surface_brightness" =>
          (ret.status = ErrDeconvolution
              <=> (self._pixelbased_bool = TRUE /\ ret.args.unconvolved))
    /\ ret.op = "image" =>
          (ret.status = ErrDeconvolution
              <=> (self._pixelbased_bool = TRUE /\ ret.args.unconvolved
                   /\ ret.args.lens_light_add))

\* pixel-based mode, no lens-light profile, unconvolved image with lens light on
C7_Witness ==
    /\ ret.op = "image"
    /\ self._pixelbased_bool = TRUE
    /\ Len(self.LensLightModel.profile_type_list) = 0
    /\ ret.args.unconvolved /\ ret.args.lens_light_add /\ ret.args.source_add
    /\ ret.status = ErrDeconvolution

\* the last call is one that produces point-source output
PointSourceOutputCall ==
    \/ ret.op = "point_source"
    \/ ret.op = "image" /\ ret.args.point_source_add

\* the positions the point-source parameters of the last call solve to
SolvedPositions ==
    point_source_list(self.PointSource.point_source_type_list, ret.args.kwargs_ps,
                      ret.args.kwargs_lens, None)[1]

\* C8 as stated: with a primary beam on the data grid and a non-empty solved
\* position list, every call producing point-source output raises; with an
\* empty list or no primary beam the primary-beam error is not raised.
C8_BeamWithPointsRaises ==
    PointSourceOutputCall =>
        /\ (self.Data.primary_beam # None /\ Len(SolvedPositions) # 0)
              => ret.status = ErrPrimaryBeam
        /\ (self.Data.primary_beam = None \/ Len(SolvedPositions) = 0)
              => ret.status # ErrPrimaryBeam

\* C8 amended: with a primary beam held by the instance (taken from the data
\* grid by __init__) and a non-empty solved position list, every call
\* producing point-source output with unconvolved=False raises; with
\* unconvolved=True, an empty list or no primary beam held, the primary-beam
\* error is not raised.
C8_BeamWithConvolvedPointsRaises ==
    PointSourceOutputCall =>
        /\ (self._pb # None /\ Len(SolvedPositions) # 0 /\ ~ret.args.unconvolved)
              => ret.status = ErrPrimaryBeam
        /\ (self._pb = None \/ Len(SolvedPositions) = 0 \/ ret.args.unconvolved)
              => ret.status # ErrPrimaryBeam

\* image with the point sources on, a primary beam and a position: raised
C8_Witness ==
    /\ ret.op = "image"
    /\ ret.args.point_source_add /\ ~ret.args.unconvolved
    /\ self._pb # None
    /\ Len(SolvedPositions) # 0
    /\ ret.status = ErrPrimaryBeam

-----------------------------------------------------------------------------
(* Properties: the statistics (SpecStats) *)

\* (model - data) / sqrt(covariance(model) + |error_map|) at one pixel
ReducedResidualAt(model, error_map, px) ==
    (model[px[1]][px[2]] - DataImage(self.Data)[px[1]][px[2]])
        \div ISqrt(C_D_model(self.Data, model)[px[1]][px[2]]
                   + Abs(Broadcast(error_map, self.Data.num_pixel_axes)[px[1]][px[2]]))

\* the pixels the likelihood mask selects
UnmaskedPixels == {px \in Pixels : self.likelihood_mask[px[1]][px[2]]}

RECURSIVE SumOfSquaredResiduals(_, _, _)
SumOfSquaredResiduals(model, error_map, S) ==
    IF S = {} THEN 0
    ELSE LET px == CHOOSE q \in S : TRUE
         IN  ReducedResidualAt(model, error_map, px) * ReducedResidualAt(model, error_map, px)
             + SumOfSquaredResiduals(model, error_map, S \ {px})

\* reduced_chi2 and reduced_residuals are what the sentences on them say
ReducedChi2IsMaskedMean ==
    /\ ret.op = "reduced_chi2" =>
          ret.val = Divide(SumOfSquaredResiduals(ret.args.model, ret.args.error_map,
                                                 UnmaskedPixels),
                           Cardinality(UnmaskedPixels))
    /\ ret.op = "reduced_residuals" =>
          \A px \in Pixels :
              ret.val[px[1]][px[2]] =
                  IF px \in UnmaskedPixels
                  THEN ReducedResidualAt(ret.args.model, ret.args.error_map, px)
                  ELSE 0

\* the last call is reduced_chi2 of the data itself with a zero error map
Chi2OfTheData ==
    /\ ret.op = "reduced_chi2"
    /\ ret.args.model = DataImage(self.Data)
    /\ Broadcast(ret.args.error_map, self.Data.num_pixel_axes) = zeros(self.Data.num_pixel_axes)

\* C12 as stated: for every data grid and every likelihood mask, reduced_chi2
\* of the data with a zero error map is 0; reduced_chi2 is the sum of the
\* squared reduced residuals of the unmasked pixels divided by
\* num_data_evaluate, masked-out pixels adding nothing.
C12_Chi2OfDataIsZero ==
    /\ Chi2OfTheData => ret.val = Rat(0, 1)
    /\ ReducedChi2IsMaskedMean

\* C12 amended: for every data grid and every likelihood mask that selects at
\* least one pixel, reduced_chi2 of the data with a zero error map is 0 (for
\* a mask that selects no pixel it is 0 / 0, not a number); reduced_chi2 is
\* the sum of the squared reduced residuals of the unmasked pixels divided by
\* num_data_evaluate, masked-out pixels adding nothing.
C12_Chi2OfDataIsZeroUnlessNoPixel ==
    /\ Chi2OfTheData =>
          ret.val = IF UnmaskedPixels # {} THEN Rat(0, 1) ELSE NaN
    /\ ReducedChi2IsMaskedMean

\* a mask that selects one pixel, a model that is off at every pixel
C12_Witness ==
    /\ ret.op = "reduced_chi2"
    /\ Cardinality(UnmaskedPixels) = 1
    /\ \A px \in Pixels : ret.args.model[px[1]][px[2]] # DataImage(self.Data)[px[1]][px[2]]
    /\ ret.val.num > 0 /\ ret.val.den > 0

\* the pixels the likelihood mask given to __init__ selects: every pixel
\* when none was given, the non-zero entries otherwise
SelectedAtConstruction ==
    IF args.likelihood_mask = None
    THEN (1..args.data_class.num_pixel_axes[1]) \X (1..args.data_class.num_pixel_axes[2])
    ELSE {px \in Pixels : args.likelihood_mask[px[1]][px[2]] # 0}

\* C13: num_data_evaluate is the number of True entries of the likelihood
\* mask (every pixel when no mask was given, the non-zero entries of a given
\* mask), whatever updates, cache resets and evaluations came before.
C13_NumDataEvaluateCountsMask ==
    /\ phase = "ready" =>
          /\ num_data_evaluate = Cardinality(SelectedAtConstruction)
          /\ num_data_evaluate = Cardinality(UnmaskedPixels)
    /\ ret.op = "num_data_evaluate" => ret.val = Cardinality(SelectedAtConstruction)

\* a mask given with entries 0 and 2, the data and the PSF replaced, the
\* point-source cache switched on and filled by an evaluation
C13_Witness ==
    /\ ret.op = "num_data_evaluate"
    /\ args.likelihood_mask # None
    /\ args.likelihood_mask[NX][NY] = 2
    /\ ret.val = NX * NY - 1
    /\ self.Data # args.data_class
    /\ self.PSF # args.psf_class
    /\ point_source_obj.save_cache /\ point_source_obj.cache

-----------------------------------------------------------------------------
(* Properties: every operation of an instance (SpecAll) *)

\* what image with all three terms, and _error_map_model, return for the
\* arguments of the last likelihood_data_given_model call
LikelihoodImage ==
    image(ret.args.kwargs_lens, ret.args.kwargs_source, ret.args.kwargs_lens_light,
          ret.args.kwargs_ps, None, ret.args.kwargs_special, FALSE, TRUE, TRUE, TRUE)
LikelihoodErrorMap ==
    _error_map_model(ret.args.kwargs_lens, ret.args.kwargs_ps, ret.args.kwargs_special)

\* the likelihood is the data's log_likelihood over the image of all three
\* terms, the likelihood mask and the model-uncertainty map; an exception of
\* the image is the exception of the call
LikelihoodDelegates ==
    ret.op = "likelihood_data_given_model" =>
        /\ LikelihoodImage.status = "ok" =>
              /\ ret.status = "ok"
              /\ ret.val = log_likelihood(self.Data, LikelihoodImage.val, self.likelihood_mask,
                                          LikelihoodErrorMap.val)
        /\ LikelihoodImage.status # "ok" => ret.status = LikelihoodImage.status

\* the data's log_likelihood of the all-zero model image
LikelihoodOfZeroModel ==
    log_likelihood(self.Data, zeros(self.Data.num_pixel_axes), self.likelihood_mask,
                   zeros(self.Data.num_pixel_axes))

EvaluationStep == phase = "ready" /\ ret = NoRet /\ ret' # NoRet

\* the PSF's pixel size and, but for its position cache, the point-source
\* collaborator are as before
CollaboratorsKept ==
    /\ psf_pixel_size' = psf_pixel_size
    /\ point_source_obj' = [point_source_obj EXCEPT !.cache = point_source_obj'.cache]

\* C14 as stated: an evaluation leaves the instance as it is (the Data and
\* PSF references, the mask and its flat index, the mode flag, the numerics,
\* the primary beam, the flux scaling, the PSF-error-map list); all it may
\* change across calls is the position cache of the point-source collaborator.
C14_EvaluationsChangeOnlyPositionCache ==
    [][EvaluationStep => (self' = self /\ CollaboratorsKept)]_vars

\* the evaluation called in this step evaluates the lensed source with the
\* mapping update on
LensedSourceStep ==
    \/ ret'.op = "image" /\ ret'.args.source_add
    \/ ret'.op = "likelihood_data_given_model"
    \/ ret'.op = "source_surface_brightness" /\ ~ret'.args.de_lensed
       /\ ret'.args.update_pixelbased_mapping

\* C14 amended: an evaluation leaves the instance as it is, but for the
\* pixel-based solver: in pixel-based mode an evaluation of the lensed source
\* with update_mapping on (image with the source term, the likelihood,
\* source_surface_brightness with de_lensed=False) sets the lensing mapping
\* of the solver's lensing operator, and no other evaluation changes it; all
\* else an evaluation may change is the position cache of the point-source
\* collaborator.
C14_EvaluationsChangeOnlyCacheAndMapping ==
    [][EvaluationStep =>
        /\ [self' EXCEPT !.PixelSolver = self.PixelSolver] = self
        /\ CollaboratorsKept
        /\ IF self._pixelbased_bool = TRUE /\ LensedSourceStep
           THEN self'.PixelSolver =
                    [self.PixelSolver EXCEPT !.lensing_mapping = Some(ret'.args.kwargs_lens)]
           ELSE self'.PixelSolver = self.PixelSolver]_vars

\* a pixel-based instance after evaluations: the mapping set, the cache filled
C14_Witness ==
    /\ ret # NoRet
    /\ ret.op = "image"
    /\ self._pixelbased_bool = TRUE
    /\ self.PixelSolver.lensing_mapping = Some(<<>>)
    /\ point_source_obj.cache

\* the model-uncertainty map the last error_response call returned
ReturnedErrorMap == ret.val[2]

\* the map the point sources of the call give with the PSF the instance holds
ErrorMapOfCurrentPSF ==
    ErrorMapLoop(0, zeros(self.Data.num_pixel_axes), ret.args.kwargs_lens,
                 ret.args.kwargs_ps, ret.args.kwargs_special)

\* C15: the model-uncertainty map of error_response is all zero when the PSF
\* of the instance supplies no variance map, and otherwise is the sum of the
\* per-point-source contributions the PSF reports for the images of the call.
C15_ErrorMapFollowsPSF ==
    (phase = "ready" /\ ret.op = "error_response" /\ ret.status = "ok") =>
        IF self.PSF.psf_variance_map_bool = TRUE
        THEN Ok(ReturnedErrorMap) = ErrorMapOfCurrentPSF
        ELSE ReturnedErrorMap = zeros(self.Data.num_pixel_axes)

\* the flux factor of the data grid the instance holds (1 without the attribute)
CurrentFluxScaling ==
    IF hasattr(self.Data, "flux_scaling") THEN self.Data.flux_scaling ELSE 1

TermCall ==
    /\ phase = "ready"
    /\ ret.op \in {"source_surface_brightness", "lens_surface_brightness", "point_source"}
    /\ ret.status = "ok"

\* C16: every term a call returns is its unscaled image multiplied by the
\* flux factor of the data grid the instance holds (1 when the grid has none).
C16_TermsScaledByDataGrid ==
    TermCall =>
        ret.val = ImgScale(ImgDiv(ret.val, self._flux_scaling), CurrentFluxScaling)

\* the numerics adapters and the PSF pixel size agree with the PSF and the
\* data grid the instance holds
AdaptersBound ==
    /\ self.ImageNumerics.pixel_grid = self.Data
    /\ self.ImageNumerics.psf = self.PSF
    /\ psf_pixel_size[self.PSF] = self.Data.pixel_width
    /\ self._pixelbased_bool = TRUE =>
          /\ self.SourceNumerics.pixel_grid = self.Data
          /\ self.SourceNumerics.psf = self.PSF

UpdateStep == phase = "ready" /\ (self'.PSF # self.PSF \/ self'.Data # self.Data)

\* C17: after update_psf and after update_data the numerics adapters are
\* bound to the PSF and the data grid the instance now holds, and the pixel
\* size of that PSF is the pixel width of that data grid.
C17_UpdatesRebindAdapters == [][UpdateStep => AdaptersBound']_vars

\* C18: the rendering mode is the one detected from the source model given to
\* __init__ and never changes afterwards; a pixel-based instance has the
\* solver and the source numerics and no source mapping, an analytical
\* instance has the source mapping and neither of the other two.
C18_OneBackEndFixedAtConstruction ==
    phase = "ready" =>
        /\ self._pixelbased_bool = SinglePixelBasedProfile(GivenSourceList)
        /\ IF self._pixelbased_bool = TRUE
           THEN /\ self.PixelSolver # None
                /\ self.SourceNumerics # None
                /\ self.source_mapping = None
           ELSE /\ self.source_mapping # None
                /\ self.PixelSolver = None
                /\ self.SourceNumerics = None

\* a pixel-based instance whose PSF and data grid were both replaced and whose
\* solver has evaluated a source
C18_Witness ==
    /\ phase = "ready"
    /\ self._pixelbased_bool = TRUE
    /\ self.PSF # args.psf_class
    /\ self.Data # args.data_class
    /\ self.PixelSolver # None
    /\ self.PixelSolver.lensing_mapping # None

====
